---- MODULE Spec2Model ----
(***************************************************************************)
(* Model of build.py, the static blog generator: parse_frontmatter,        *)
(* markdown_to_html, build_post, build_index and the __main__ batch loop.  *)
(* Text is a sequence of one-character strings, so that the regular        *)
(* expressions and the str methods of the source are computed character    *)
(* by character.                                                           *)
(***************************************************************************)
EXTENDS Integers, Sequences, FiniteSets, TLC

VARIABLES
    md_files,      \* __main__: the globbed files, each [name, content]
    idx,           \* __main__: position of the for loop in md_files (1-based)
    posts,         \* __main__: the posts list
    written,       \* the post pages written so far, in order: [path, title, formatted_date, html_content]
    index_html,    \* blog/index.html: None, or Some(the listed entries [href, title, formatted_date])
    pc,            \* "loop", "index", "done" (exit 0) or "aborted" (uncaught exception)
    failure,       \* which open() raised: "none", "read", "write", "index"
    content,       \* parse_frontmatter: its argument
    parsed,        \* parse_frontmatter: None before the call, then Some(<<frontmatter, body>>)
    md,            \* markdown_to_html: its argument
    rendered       \* markdown_to_html: None before the call, then Some(html)

vars == <<md_files, idx, posts, written, index_html, pc, failure, content, parsed, md, rendered>>

runVars == <<md_files, idx, posts, written, index_html, pc, failure>>
parseVars == <<content, parsed>>
mdVars == <<md, rendered>>

(***************************************************************************)
(* Bounds of the model.                                                    *)
(***************************************************************************)
MaxFiles == 2
MaxPosts == 3
MaxLines == 4
MaxTokens == 4

(***************************************************************************)
(* str helpers.                                                            *)
(***************************************************************************)
NL == "\n"
\* the character U+0060, which a string literal cannot hold
BACKTICK == "BACKTICK"

Min(S) == CHOOSE x \in S : \A y \in S : x <= y

\* Python's str.strip() whitespace (ASCII part)
Whitespace == {" ", "\t", "\n", "\r"}

RECURSIVE LStrip(_)
LStrip(s) == IF s = <<>> THEN s
             ELSE IF Head(s) \in Whitespace THEN LStrip(Tail(s)) ELSE s

RECURSIVE RStrip(_)
RStrip(s) == IF s = <<>> THEN s
             ELSE IF s[Len(s)] \in Whitespace THEN RStrip(SubSeq(s, 1, Len(s) - 1)) ELSE s

Strip(s) == RStrip(LStrip(s))

StartsWith(s, p) == Len(s) >= Len(p) /\ SubSeq(s, 1, Len(p)) = p

\* str.find from position `from` (1-based); 0 when absent
IndexOf(s, sep, from) ==
    LET I == {i \in from..(Len(s) - Len(sep) + 1) : SubSeq(s, i, i + Len(sep) - 1) = sep}
    IN IF I = {} THEN 0 ELSE Min(I)

Contains(s, sep) == IndexOf(s, sep, 1) # 0

\* str.split(sep)
RECURSIVE Split(_, _)
Split(s, sep) ==
    LET i == IndexOf(s, sep, 1)
    IN IF i = 0 THEN <<s>>
       ELSE <<SubSeq(s, 1, i - 1)>> \o Split(SubSeq(s, i + Len(sep), Len(s)), sep)

\* sep.join(parts)
RECURSIVE Join(_, _)
Join(parts, sep) ==
    IF parts = <<>> THEN <<>>
    ELSE IF Len(parts) = 1 THEN parts[1]
    ELSE parts[1] \o sep \o Join(Tail(parts), sep)

(***************************************************************************)
(* parse_frontmatter                                                       *)
(***************************************************************************)
Marker == <<"-", "-", "-">>
OpenPat == Marker \o <<NL>>              \* ^---\n
ClosePat == <<NL>> \o Marker \o <<NL>>   \* \n---\n

\* re.match(r'^---\n(.*?)\n---\n(.*)$', content, re.DOTALL): the position of the
\* closing \n---\n the lazy group stops at, 0 when there is no match.
FrontmatterMatchNoEol(c) ==
    IF StartsWith(c, OpenPat) THEN IndexOf(c, <<NL>> \o Marker, Len(OpenPat) + 1) ELSE 0

FrontmatterMatch(c) ==
    IF StartsWith(c, OpenPat) THEN IndexOf(c, ClosePat, Len(OpenPat) + 1) ELSE 0

Group1(c) == SubSeq(c, Len(OpenPat) + 1, FrontmatterMatch(c) - 1)
Group2(c) == SubSeq(c, FrontmatterMatch(c) + Len(ClosePat), Len(c))

EmptyMeta == [k \in {} |-> <<>>]

\* frontmatter[key] = value
DictSetFirstWins(d, k, v) == [x \in DOMAIN d \cup {k} |-> IF x \in DOMAIN d THEN d[x] ELSE v]

DictSet(d, k, v) == [x \in DOMAIN d \cup {k} |-> IF x = k THEN v ELSE d[x]]

\* key, value = line.split(':', 1)
LineKey(line) == Strip(SubSeq(line, 1, IndexOf(line, <<":">>, 1) - 1))

LineValue(line) == Strip(SubSeq(line, IndexOf(line, <<":">>, 1) + 1, Len(line)))

\* the for loop over match.group(1).split('\n')
RECURSIVE FrontmatterOf(_, _)
FrontmatterOf(lines, d) ==
    IF lines = <<>> THEN d
    ELSE FrontmatterOf(Tail(lines),
                       IF Contains(Head(lines), <<":">>)
                       THEN DictSet(d, LineKey(Head(lines)), LineValue(Head(lines)))
                       ELSE d)

\* the body returned when the regex does not match
NoMatchBodyTrimmed(c) == Strip(c)

NoMatchBody(c) == c

parse_frontmatter(c) ==
    IF FrontmatterMatch(c) = 0 THEN <<EmptyMeta, NoMatchBody(c)>>
    ELSE <<FrontmatterOf(Split(Group1(c), <<NL>>), EmptyMeta), Group2(c)>>

(***************************************************************************)
(* parse_frontmatter applied to bounded documents: up to MaxLines lines    *)
(* drawn from ParseLineSet, joined by newlines, with or without a final    *)
(* newline.                                                                *)
(***************************************************************************)
None == <<>>
Some(x) == <<x>>

ParseLineSet ==
    { Marker,
      <<>>,
      <<"a", ":", " ", "b">>,
      <<" ", "a", " ", ":", "c", ":", "d", " ">>,
      <<"x">>,
      <<"-", "-", "-", "a">> }

SeqsUpTo(S, n) == UNION {[1..k -> S] : k \in 0..n}

ParseDocs ==
    {Join(ls, <<NL>>) \o tail : ls \in SeqsUpTo(ParseLineSet, MaxLines), tail \in {<<>>, <<NL>>}}

RunIdle ==
    /\ md_files = <<>> /\ idx = 1 /\ posts = <<>> /\ written = <<>>
    /\ index_html = None /\ pc = "idle" /\ failure = "none"
ParseIdle == content = <<>> /\ parsed = None
MdIdle == md = <<>> /\ rendered = None

InitParse == content \in ParseDocs /\ parsed = None /\ RunIdle /\ MdIdle

ParseFrontmatter ==
    /\ parsed = None
    /\ parsed' = Some(parse_frontmatter(content))
    /\ UNCHANGED <<content, runVars, mdVars>>

NextParse == ParseFrontmatter

SpecParse == InitParse /\ [][NextParse]_vars

(***************************************************************************)
(* The literal texts of markdown_to_html's patterns and replacements.       *)
(***************************************************************************)
H2_PREFIX == <<"#", "#", " ">>
H1_PREFIX == <<"#", " ">>
H2_OPEN == <<"<", "h", "2", ">">>
H2_CLOSE == <<"<", "/", "h", "2", ">">>
H1_OPEN == <<"<", "h", "1", ">">>
H1_CLOSE == <<"<", "/", "h", "1", ">">>
CODE_OPEN == <<"<", "c", "o", "d", "e", ">">>
CODE_CLOSE == <<"<", "/", "c", "o", "d", "e", ">">>
STAR2 == <<"*", "*">>
STAR1 == <<"*">>
STRONG_OPEN == <<"<", "s", "t", "r", "o", "n", "g", ">">>
STRONG_CLOSE == <<"<", "/", "s", "t", "r", "o", "n", "g", ">">>
EM_OPEN == <<"<", "e", "m", ">">>
EM_CLOSE == <<"<", "/", "e", "m", ">">>
A_OPEN1 == <<"<", "a", " ", "h", "r", "e", "f", "=", "\"">>
A_OPEN2 == <<"\"", ">">>
A_CLOSE == <<"<", "/", "a", ">">>
H_PREFIX == <<"<", "h">>
P_OPEN == <<"<", "p", ">">>
P_CLOSE == <<"<", "/", "p", ">">>
HR == <<"<", "h", "r", ">">>
LINK == <<"[", "a", "]", "(", "b", ")">>

(***************************************************************************)
(* markdown_to_html                                                        *)
(***************************************************************************)
NoNewline(s) == \A i \in 1..Len(s) : s[i] # NL

\* re.sub(r'^<prefix>(.+)$', r'<open>\1<close>', html, flags=re.MULTILINE):
\* '.' stops at a newline and '$' matches only at the end of a line, so the
\* substitution rewrites whole lines.
SubHeadingLine(line, prefix, open, close) ==
    IF StartsWith(line, prefix) /\ Len(line) > Len(prefix)
    THEN open \o SubSeq(line, Len(prefix) + 1, Len(line)) \o close
    ELSE line

RECURSIVE SubHeadingLines(_, _, _, _)
SubHeadingLines(lines, prefix, open, close) ==
    IF lines = <<>> THEN <<>>
    ELSE <<SubHeadingLine(Head(lines), prefix, open, close)>>
         \o SubHeadingLines(Tail(lines), prefix, open, close)

SubHeading(s, prefix, open, close) ==
    Join(SubHeadingLines(Split(s, <<NL>>), prefix, open, close), <<NL>>)

\* re.sub(r'`([^`]+)`', r'<code>\1</code>', html)
RECURSIVE SubCode(_)
SubCode(s) ==
    LET i == IndexOf(s, <<BACKTICK>>, 1)
        j == IndexOf(s, <<BACKTICK>>, i + 1)
    IN IF i = 0 \/ j = 0 THEN s
       ELSE IF j = i + 1 THEN SubSeq(s, 1, i) \o SubCode(SubSeq(s, i + 1, Len(s)))
       ELSE SubSeq(s, 1, i - 1) \o CODE_OPEN \o SubSeq(s, i + 1, j - 1) \o CODE_CLOSE
            \o SubCode(SubSeq(s, j + 1, Len(s)))

\* re.sub(r'<d>(.+?)<d>', r'<open>\1<close>', html) for the delimiter d = ** or *:
\* leftmost start, then the nearest closing delimiter after at least one
\* character, none of them a newline.
SpanEnds(s, d, i) ==
    {e \in (i + Len(d) + 1)..(Len(s) - Len(d) + 1) :
        /\ SubSeq(s, e, e + Len(d) - 1) = d
        /\ NoNewline(SubSeq(s, i + Len(d), e - 1))}

SpanStarts(s, d) ==
    {i \in 1..(Len(s) - Len(d) + 1) :
        SubSeq(s, i, i + Len(d) - 1) = d /\ SpanEnds(s, d, i) # {}}

RECURSIVE SubSpan(_, _, _, _)
SubSpan(s, d, open, close) ==
    IF SpanStarts(s, d) = {} THEN s
    ELSE LET i == Min(SpanStarts(s, d))
             e == Min(SpanEnds(s, d, i))
         IN SubSeq(s, 1, i - 1) \o open \o SubSeq(s, i + Len(d), e - 1) \o close
            \o SubSpan(SubSeq(s, e + Len(d), Len(s)), d, open, close)

\* re.sub(r'\[(.+?)\]\((.+?)\)', r'<a href="\2">\1</a>', html)
LinkUrlEnds(s, m) ==
    {e \in (m + 3)..Len(s) : s[e] = ")" /\ NoNewline(SubSeq(s, m + 2, e - 1))}

LinkMids(s, i) ==
    {m \in (i + 2)..(Len(s) - 1) :
        /\ SubSeq(s, m, m + 1) = <<"]", "(">>
        /\ NoNewline(SubSeq(s, i + 1, m - 1))
        /\ LinkUrlEnds(s, m) # {}}

LinkStarts(s) == {i \in 1..Len(s) : s[i] = "[" /\ LinkMids(s, i) # {}}

RECURSIVE SubLink(_)
SubLink(s) ==
    IF LinkStarts(s) = {} THEN s
    ELSE LET i == Min(LinkStarts(s))
             m == Min(LinkMids(s, i))
             e == Min(LinkUrlEnds(s, m))
         IN SubSeq(s, 1, i - 1) \o A_OPEN1 \o SubSeq(s, m + 2, e - 1) \o A_OPEN2
            \o SubSeq(s, i + 1, m - 1) \o A_CLOSE \o SubLink(SubSeq(s, e + 1, Len(s)))

\* lines 21-27: the six substitutions, in order
Substitute(s) ==
    SubLink(
      SubSpan(
        SubSpan(
          SubCode(
            SubHeading(
              SubHeading(s, H2_PREFIX, H2_OPEN, H2_CLOSE),
              H1_PREFIX, H1_OPEN, H1_CLOSE)),
          STAR2, STRONG_OPEN, STRONG_CLOSE),
        STAR1, EM_OPEN, EM_CLOSE))

\* block.startswith('<h')
IsHeadingBlockStrict(block) == StartsWith(block, H1_OPEN) \/ StartsWith(block, H2_OPEN)

IsHeadingBlock(block) == StartsWith(block, H_PREFIX)

\* the for loop over html.split('\n\n')
RECURSIVE Paragraphs(_)
Paragraphs(blocks) ==
    IF blocks = <<>> THEN <<>>
    ELSE LET block == Strip(Head(blocks))
         IN (IF block # <<>> /\ ~IsHeadingBlock(block) THEN <<P_OPEN \o block \o P_CLOSE>>
             ELSE IF block # <<>> THEN <<block>>
             ELSE <<>>)
            \o Paragraphs(Tail(blocks))

BLANK == <<NL, NL>>

markdown_to_html(s) == Join(Paragraphs(Split(Substitute(s), BLANK)), BLANK)

(***************************************************************************)
(* markdown_to_html applied to bounded texts: up to MaxTokens tokens drawn *)
(* from MdTokens.                                                          *)
(***************************************************************************)
MdTokens ==
    { H1_PREFIX, H2_PREFIX, <<"a">>, <<NL>>, BLANK, STAR1, <<BACKTICK>>, HR, LINK }

RECURSIVE Concat(_)
Concat(parts) == IF parts = <<>> THEN <<>> ELSE Head(parts) \o Concat(Tail(parts))

MdTexts == {Concat(ts) : ts \in SeqsUpTo(MdTokens, MaxTokens)}

InitMd == md \in MdTexts /\ rendered = None /\ RunIdle /\ ParseIdle

MarkdownToHtml ==
    /\ rendered = None
    /\ rendered' = Some(markdown_to_html(md))
    /\ UNCHANGED <<md, runVars, parseVars>>

NextMd == MarkdownToHtml

SpecMd == InitMd /\ [][NextMd]_vars

(***************************************************************************)
(* Python's str ordering: by code point, a proper prefix first.            *)
(***************************************************************************)
\* the printable ASCII characters, code points 32 to 126, in order
Printable == <<" ", "!", "\"", "#", "$", "%", "&", "'", "(", ")", "*", "+", ",", "-", ".", "/", "0", "1", "2", "3", "4", "5", "6", "7", "8", "9", ":", ";", "<", "=", ">", "?", "@", "A", "B", "C", "D", "E", "F", "G", "H", "I", "J", "K", "L", "M", "N", "O", "P", "Q", "R", "S", "T", "U", "V", "W", "X", "Y", "Z", "[", "\\", "]", "^", "_", BACKTICK, "a", "b", "c", "d", "e", "f", "g", "h", "i", "j", "k", "l", "m", "n", "o", "p", "q", "r", "s", "t", "u", "v", "w", "x", "y", "z", "{", "|", "}", "~">>

Ord(c) == IF c = "\t" THEN 9
          ELSE IF c = NL THEN 10
          ELSE IF c = "\r" THEN 13
          ELSE 31 + (CHOOSE i \in 1..Len(Printable) : Printable[i] = c)

RECURSIVE StrLess(_, _)
StrLess(a, b) ==
    IF b = <<>> THEN FALSE
    ELSE IF a = <<>> THEN TRUE
    ELSE IF Head(a) = Head(b) THEN StrLess(Tail(a), Tail(b))
    ELSE Ord(Head(a)) < Ord(Head(b))

(***************************************************************************)
(* datetime.strptime(date, '%Y-%m-%d') and strftime('%B %d, %Y')           *)
(***************************************************************************)
Digits == <<"0", "1", "2", "3", "4", "5", "6", "7", "8", "9">>
IsDigit(c) == \E i \in 1..10 : Digits[i] = c
DigitVal(c) == (CHOOSE i \in 1..10 : Digits[i] = c) - 1
AllDigits(s) == \A i \in 1..Len(s) : IsDigit(s[i])

RECURSIVE NumVal(_)
NumVal(s) == IF s = <<>> THEN 0 ELSE 10 * NumVal(SubSeq(s, 1, Len(s) - 1)) + DigitVal(s[Len(s)])

IsLeap(y) == (y % 4 = 0 /\ y % 100 # 0) \/ y % 400 = 0
DaysInMonth(y, m) ==
    IF m = 2 THEN (IF IsLeap(y) THEN 29 ELSE 28)
    ELSE IF m \in {4, 6, 9, 11} THEN 30 ELSE 31

\* %m is (1[0-2]|0[1-9]|[1-9]); %d is (3[01]|[12]\d|0[1-9]|[1-9]| [1-9])
MonthToken(t) == Len(t) \in {1, 2} /\ AllDigits(t) /\ NumVal(t) \in 1..12
DayTokenDigits(t) == IF Head(t) = " " THEN Tail(t) ELSE t
DayToken(t) ==
    /\ Len(t) \in {1, 2}
    /\ \/ AllDigits(t) /\ NumVal(t) \in 1..31
       \/ Len(t) = 2 /\ t[1] = " " /\ IsDigit(t[2]) /\ t[2] # "0"

\* the ways the format's regex splits the text: <<year, month, day>> texts
DateSplits(d) ==
    {<<SubSeq(d, 1, 4), SubSeq(d, 6, 5 + ml), SubSeq(d, 7 + ml, Len(d))>> :
        ml \in {k \in {1, 2} :
                  /\ Len(d) >= 7 + k
                  /\ AllDigits(SubSeq(d, 1, 4))
                  /\ d[5] = "-"
                  /\ MonthToken(SubSeq(d, 6, 5 + k))
                  /\ d[6 + k] = "-"
                  /\ DayToken(SubSeq(d, 7 + k, Len(d)))}}

\* strptime returns a datetime (does not raise ValueError)
StrptimeOk(d) ==
    /\ DateSplits(d) # {}
    /\ LET p == CHOOSE p \in DateSplits(d) : TRUE
       IN /\ NumVal(p[1]) >= 1
          /\ NumVal(DayTokenDigits(p[3])) <= DaysInMonth(NumVal(p[1]), NumVal(p[2]))

MonthNames == <<<<"J", "a", "n", "u", "a", "r", "y">>,
               <<"F", "e", "b", "r", "u", "a", "r", "y">>,
               <<"M", "a", "r", "c", "h">>,
               <<"A", "p", "r", "i", "l">>,
               <<"M", "a", "y">>,
               <<"J", "u", "n", "e">>,
               <<"J", "u", "l", "y">>,
               <<"A", "u", "g", "u", "s", "t">>,
               <<"S", "e", "p", "t", "e", "m", "b", "e", "r">>,
               <<"O", "c", "t", "o", "b", "e", "r">>,
               <<"N", "o", "v", "e", "m", "b", "e", "r">>,
               <<"D", "e", "c", "e", "m", "b", "e", "r">>>>

TwoDigits(n) == <<Digits[(n \div 10) + 1], Digits[(n % 10) + 1]>>

\* date_obj.strftime('%B %d, %Y'), for the four-digit years 1000 to 9999
Strftime(d) ==
    LET p == CHOOSE p \in DateSplits(d) : TRUE
    IN MonthNames[NumVal(p[2])] \o <<" ">> \o TwoDigits(NumVal(DayTokenDigits(p[3])))
       \o <<",", " ">> \o p[1]

(***************************************************************************)
(* build_post                                                              *)
(***************************************************************************)
TITLE == <<"t", "i", "t", "l", "e">>
DATE == <<"d", "a", "t", "e">>
UNTITLED == <<"U", "n", "t", "i", "t", "l", "e", "d">>
BLOG_DIR == <<"b", "l", "o", "g", "/">>
MD_EXT == <<".", "m", "d">>
HTML_EXT == <<".", "h", "t", "m", "l">>

\* dict.get(key, default)
MetaGet(meta, key, default) == IF key \in DOMAIN meta THEN meta[key] ELSE default

PostTitleNoDefault(meta) == MetaGet(meta, TITLE, <<>>)

PostTitle(meta) == MetaGet(meta, TITLE, UNTITLED)

PostDate(meta) == MetaGet(meta, DATE, <<>>)

\* lines 49-56
FormattedDateBlankOnError(date) ==
    IF date # <<>> THEN (IF StrptimeOk(date) THEN Strftime(date) ELSE <<>>) ELSE <<>>

FormattedDate(date) ==
    IF date # <<>> THEN (IF StrptimeOk(date) THEN Strftime(date) ELSE date) ELSE <<>>

\* str.replace(old, new): every occurrence, left to right
Replace(s, old, new) == Join(Split(s, old), new)

OutputFile(md_file) == Replace(md_file, MD_EXT, HTML_EXT)

\* Path(p).name and Path(p).stem
PathName(path) ==
    LET I == {i \in 1..Len(path) : path[i] = "/"}
    IN IF I = {} THEN path ELSE SubSeq(path, (CHOOSE i \in I : \A j \in I : j <= i) + 1, Len(path))

Stem(path) ==
    LET name == PathName(path)
        I == {i \in 1..Len(name) : name[i] = "."}
        i == IF I = {} THEN 0 ELSE CHOOSE i \in I : \A j \in I : j <= i
    IN IF 1 < i /\ i < Len(name) THEN SubSeq(name, 1, i - 1) ELSE name

\* the page build_post writes (the template around the four values is fixed)
PostPage(md_file, text) ==
    LET r == parse_frontmatter(text)
    IN [path |-> OutputFile(md_file),
        title |-> PostTitle(r[1]),
        formatted_date |-> FormattedDate(PostDate(r[1])),
        html_content |-> markdown_to_html(r[2])]

\* the dict build_post returns
build_post(md_file, text) ==
    LET r == parse_frontmatter(text)
    IN [title |-> PostTitle(r[1]),
        date |-> PostDate(r[1]),
        formatted_date |-> FormattedDate(PostDate(r[1])),
        slug |-> Stem(md_file)]

(***************************************************************************)
(* build_index                                                             *)
(***************************************************************************)
\* sorted(posts, key=lambda p: p['date'], reverse=True): stable, so a post goes
\* after every post whose date is greater or equal
RECURSIVE InsertTiesFirst(_, _)
InsertTiesFirst(sorted, p) ==
    IF sorted = <<>> THEN <<p>>
    ELSE IF StrLess(p.date, Head(sorted).date) THEN <<Head(sorted)>> \o InsertTiesFirst(Tail(sorted), p)
    ELSE <<p>> \o sorted

RECURSIVE Insert(_, _)
Insert(sorted, p) ==
    IF sorted = <<>> THEN <<p>>
    ELSE IF StrLess(Head(sorted).date, p.date) THEN <<p>> \o sorted
    ELSE <<Head(sorted)>> \o Insert(Tail(sorted), p)

RECURSIVE SortedByDateDesc(_)
SortedByDateDesc(ps) ==
    IF ps = <<>> THEN <<>>
    ELSE Insert(SortedByDateDesc(SubSeq(ps, 1, Len(ps) - 1)), ps[Len(ps)])

\* one <article> of the index
IndexEntry(post) ==
    [href |-> post.slug \o HTML_EXT, title |-> post.title, formatted_date |-> post.formatted_date]

posts_html(ps) == LET s == SortedByDateDesc(ps) IN [i \in 1..Len(s) |-> IndexEntry(s[i])]

(***************************************************************************)
(* __main__: glob blog/*.md, build every post, then the index.  An open()  *)
(* or write() that raises is not caught anywhere: the run ends there.      *)
(***************************************************************************)
FileNames == {<<"a", ".", "m", "d">>, <<"b", ".", "m", "d">>, <<"a", ".", "m", "d", ".", "m", "d">>, <<"n", ".", "m", "d", "x", ".", "m", "d">>}

DocOf(t, d, body) ==
    Marker \o <<NL>> \o t \o d \o Marker \o <<NL>> \o body

TitleA == <<"t", "i", "t", "l", "e", ":", " ", "A", "\n">>
TitleB == <<"t", "i", "t", "l", "e", ":", " ", "B", "\n">>
TitleEmpty == <<"t", "i", "t", "l", "e", ":", "\n">>
Date1 == <<"d", "a", "t", "e", ":", " ", "2", "0", "2", "4", "-", "0", "1", "-", "0", "1", "\n">>
Date2 == <<"d", "a", "t", "e", ":", " ", "2", "0", "2", "4", "-", "0", "6", "-", "1", "5", "\n">>
DateBad == <<"d", "a", "t", "e", ":", " ", "2", "0", "2", "4", "-", "1", "3", "-", "4", "0", "\n">>
DateUnpadded == <<"d", "a", "t", "e", ":", " ", "2", "0", "2", "4", "-", "1", "-", "5", "\n">>
BodyText == <<"#", " ", "H", "i", "\n", "\n", "a", " ", "*", "*", "b", "*", "*">>

FileTexts ==
    { DocOf(TitleA, Date1, BodyText),
      DocOf(<<>>, Date2, BodyText),
      DocOf(TitleEmpty, Date1, BodyText),
      DocOf(TitleB, DateBad, BodyText),
      DocOf(TitleB, <<>>, BodyText),
      DocOf(TitleB, DateUnpadded, BodyText),
      BodyText }

\* the texts of FileTexts that differ in title and date
IndexTexts ==
    { DocOf(TitleA, Date1, BodyText),
      DocOf(<<>>, Date2, BodyText),
      DocOf(TitleEmpty, Date1, BodyText),
      DocOf(TitleB, DateBad, BodyText) }

\* what blog_dir.glob('*.md') can return: files of distinct names, in any order
Globs(texts, n) ==
    {fs \in SeqsUpTo([name : FileNames, text : texts], n) :
        \A i, j \in 1..Len(fs) : i # j => fs[i].name # fs[j].name}

MdFile(f) == BLOG_DIR \o f.name

Init ==
    /\ md_files \in Globs(FileTexts, MaxFiles)
    /\ idx = 1 /\ posts = <<>> /\ written = <<>>
    /\ index_html = None /\ pc = "loop" /\ failure = "none"
    /\ ParseIdle /\ MdIdle

InLoop == pc = "loop" /\ idx <= Len(md_files)

BuildPostOk ==
    /\ InLoop
    /\ posts' = Append(posts, build_post(MdFile(md_files[idx]), md_files[idx].text))
    /\ written' = Append(written, PostPage(MdFile(md_files[idx]), md_files[idx].text))
    /\ idx' = idx + 1
    /\ UNCHANGED <<md_files, index_html, pc, failure, parseVars, mdVars>>

\* open(md_file, 'r') or f.read() raises
BuildPostReadFails ==
    /\ InLoop
    /\ pc' = "aborted" /\ failure' = "read"
    /\ UNCHANGED <<md_files, idx, posts, written, index_html, parseVars, mdVars>>

\* open(output_file, 'w') or f.write() raises
BuildPostWriteFails ==
    /\ InLoop
    /\ pc' = "aborted" /\ failure' = "write"
    /\ UNCHANGED <<md_files, idx, posts, written, index_html, parseVars, mdVars>>

AfterLoop == pc = "loop" /\ idx > Len(md_files)

BuildIndexOk ==
    /\ AfterLoop
    /\ index_html' = Some(posts_html(posts))
    /\ pc' = "done"
    /\ UNCHANGED <<md_files, idx, posts, written, failure, parseVars, mdVars>>

\* open('blog/index.html', 'w') or f.write() raises
BuildIndexFails ==
    /\ AfterLoop
    /\ pc' = "aborted" /\ failure' = "index"
    /\ UNCHANGED <<md_files, idx, posts, written, index_html, parseVars, mdVars>>

Next ==
    \/ BuildPostOk
    \/ BuildPostReadFails
    \/ BuildPostWriteFails
    \/ BuildIndexOk
    \/ BuildIndexFails

Spec == Init /\ [][Next]_vars

(***************************************************************************)
(* build_index on the posts of a finished loop: the state after the for    *)
(* loop of a run of up to MaxPosts files in which no open() raised.        *)
(***************************************************************************)
InitIndex ==
    /\ md_files \in Globs(IndexTexts, MaxPosts)
    /\ idx = Len(md_files) + 1
    /\ posts = [i \in 1..Len(md_files) |-> build_post(MdFile(md_files[i]), md_files[i].text)]
    /\ written = [i \in 1..Len(md_files) |-> PostPage(MdFile(md_files[i]), md_files[i].text)]
    /\ index_html = None /\ pc = "loop" /\ failure = "none"
    /\ ParseIdle /\ MdIdle

NextIndex == BuildIndexOk \/ BuildIndexFails

SpecIndex == InitIndex /\ [][NextIndex]_vars

(***************************************************************************)
(* The document as the claims about parse_frontmatter see it: its lines.   *)
(***************************************************************************)
DocLines(c) == Split(c, <<NL>>)
FirstLineIsMarker(c) == DocLines(c)[1] = Marker
LaterMarkers(c) == {j \in 2..Len(DocLines(c)) : DocLines(c)[j] = Marker}
ClosingLine(c) == Min(LaterMarkers(c))
Parsed == parsed # None
Meta == parsed[1][1]
Body == parsed[1][2]
HasColon(line) == \E i \in 1..Len(line) : line[i] = ":"

\* C5 (as claimed): whenever the first line is the marker and a later line is the
\* marker, the metadata is that of the lines strictly between the first line and
\* the first later marker line, and the body is the text after that line; also
\* with no line in between and with the closing marker as the last line.
C5_ClosedBlockParsed ==
    (Parsed /\ FirstLineIsMarker(content) /\ LaterMarkers(content) # {}) =>
        LET ls == DocLines(content)
            j == ClosingLine(content)
        IN /\ Meta = FrontmatterOf(SubSeq(ls, 2, j - 1), EmptyMeta)
           /\ Body = Join(SubSeq(ls, j + 1, Len(ls)), <<NL>>)

\* C6 (as claimed): without a leading marker line the metadata is empty and the
\* body is the input with leading and trailing whitespace trimmed.
C6_NoMarkerBodyTrimmed ==
    (Parsed /\ ~FirstLineIsMarker(content)) =>
        (Meta = EmptyMeta /\ Body = Strip(content))

\* C6 (amended): without a leading marker line the metadata is empty and the
\* body is the input text unchanged, whitespace included.
C6_NoMarkerBodyUnchanged ==
    (Parsed /\ ~FirstLineIsMarker(content)) =>
        (Meta = EmptyMeta /\ Body = content)

C6_Witness ==
    Parsed /\ ~FirstLineIsMarker(content) /\ Strip(content) # content /\ Body = content

\* C7: a document that starts with a marker line and has no later marker line
\* yields empty metadata and the full original text as body, never a partial
\* set of the key-value lines after the opening marker.
C7_UnclosedBlockFallsBack ==
    (Parsed /\ FirstLineIsMarker(content) /\ LaterMarkers(content) = {}) =>
        (Meta = EmptyMeta /\ Body = content)

C7_Witness ==
    /\ Parsed /\ FirstLineIsMarker(content) /\ LaterMarkers(content) = {}
    /\ \E j \in 2..Len(DocLines(content)) : HasColon(DocLines(content)[j])
    /\ Meta = EmptyMeta

\* A well-formed block: the opening marker line, at least one block line, and a
\* closing marker line that is terminated by a newline.
WellFormed(c) ==
    /\ FirstLineIsMarker(c)
    /\ LaterMarkers(c) # {}
    /\ ClosingLine(c) >= 3
    /\ ClosingLine(c) < Len(DocLines(c))
BlockLines(c) == SubSeq(DocLines(c), 2, ClosingLine(c) - 1)
FirstColon(line) == Min({i \in 1..Len(line) : line[i] = ":"})
KeyText(line) == Strip(SubSeq(line, 1, FirstColon(line) - 1))
ValueText(line) == Strip(SubSeq(line, FirstColon(line) + 1, Len(line)))

\* C8: for a well-formed block the metadata has exactly the keys of the block
\* lines that contain a colon, and maps each key to the trimmed text after the
\* first colon of the last block line with that key; lines without a colon add
\* nothing.
C8_LastKeyWinsFirstColonSplits ==
    (Parsed /\ WellFormed(content)) =>
        LET b == BlockLines(content)
            K == {j \in 1..Len(b) : HasColon(b[j])}
        IN /\ DOMAIN Meta = {KeyText(b[j]) : j \in K}
           /\ \A k \in DOMAIN Meta :
                 \E j \in K : /\ KeyText(b[j]) = k
                              /\ Meta[k] = ValueText(b[j])
                              /\ \A i \in K : i > j => KeyText(b[i]) # k

C8_Witness ==
    /\ Parsed /\ WellFormed(content)
    /\ LET b == BlockLines(content)
       IN \E i, j \in 1..Len(b) :
            /\ i < j /\ HasColon(b[i]) /\ HasColon(b[j])
            /\ KeyText(b[i]) = KeyText(b[j])
            /\ ValueText(b[i]) # ValueText(b[j])
            /\ HasColon(ValueText(b[j]))
            /\ Meta[KeyText(b[j])] = ValueText(b[j])

(***************************************************************************)
(* The batch as the claims about build_post and build_index see it.        *)
(***************************************************************************)
Processed == 1..(idx - 1)
DocMeta(k) == parse_frontmatter(md_files[k].text)[1]
BaseName(k) == SubSeq(md_files[k].name, 1, Len(md_files[k].name) - Len(MD_EXT))
RecordsOf(k) == {i \in 1..Len(posts) : posts[i].slug = BaseName(k)}
Listed == index_html[1]
TitleMissing(k) == TITLE \notin DOMAIN DocMeta(k)
TitleBlank(k) == TITLE \in DOMAIN DocMeta(k) /\ DocMeta(k)[TITLE] = <<>>
DatePresent(k) == DATE \in DOMAIN DocMeta(k) /\ DocMeta(k)[DATE] # <<>>

\* a valid calendar date in the exact form YYYY-MM-DD
ExactYMD(d) ==
    /\ Len(d) = 10 /\ d[5] = "-" /\ d[8] = "-"
    /\ AllDigits(SubSeq(d, 1, 4)) /\ AllDigits(SubSeq(d, 6, 7)) /\ AllDigits(SubSeq(d, 9, 10))
    /\ NumVal(SubSeq(d, 1, 4)) >= 1
    /\ NumVal(SubSeq(d, 6, 7)) \in 1..12
    /\ NumVal(SubSeq(d, 9, 10)) \in 1..DaysInMonth(NumVal(SubSeq(d, 1, 4)), NumVal(SubSeq(d, 6, 7)))

\* a one-character month or day padded with a zero
PadPart(t) == IF Len(t) = 1 THEN <<"0">> \o t ELSE IF t # <<>> /\ t[1] = " " THEN <<"0">> \o Tail(t) ELSE t
ZeroPadded(d) ==
    LET ps == Split(d, <<"-">>)
    IN IF Len(ps) = 3 THEN ps[1] \o <<"-">> \o PadPart(ps[2]) \o <<"-">> \o PadPart(ps[3]) ELSE d
DateInvalid(k) == DatePresent(k) /\ ~ExactYMD(DocMeta(k)[DATE])

C3_IOFailureNeverAborts ==
    failure \in {"read", "write"} => pc # "aborted"

\* C9 (as claimed): every link of the index names a page build_post wrote, and
\* every page written has the base name of its input file, in the same directory.
C9_IndexLinksNameWrittenPages ==
    /\ pc = "done" =>
         \A i \in 1..Len(Listed) :
            \E k \in 1..Len(written) : written[k].path = BLOG_DIR \o Listed[i].href
    /\ \A k \in 1..Len(written) : written[k].path = BLOG_DIR \o BaseName(k) \o HTML_EXT

(***************************************************************************)
(* build_index                                                             *)
(***************************************************************************)
Orderings(n) == {f \in [1..n -> 1..n] : \A i, j \in 1..n : f[i] = f[j] => i = j}

\* C4: the index lists the posts in descending order of their date text, posts
\* of equal date in their input order, and the list is a permutation of the input.
C4_IndexSortedStable ==
    index_html # None =>
        /\ Len(Listed) = Len(posts)
        /\ \E f \in Orderings(Len(posts)) :
              /\ \A i \in 1..Len(posts) : Listed[i] = IndexEntry(posts[f[i]])
              /\ \A i, j \in 1..Len(posts) :
                    i < j => /\ ~StrLess(posts[f[i]].date, posts[f[j]].date)
                             /\ posts[f[i]].date = posts[f[j]].date => f[i] < f[j]

C4_Witness ==
    /\ index_html # None
    /\ Len(posts) = 3
    /\ posts[1].date = posts[3].date
    /\ StrLess(posts[1].date, posts[2].date)
    /\ Listed = <<IndexEntry(posts[2]), IndexEntry(posts[1]), IndexEntry(posts[3])>>

(***************************************************************************)
(* markdown_to_html                                                        *)
(***************************************************************************)
NonEmpty(b) == b # <<>>
SubstitutedBlocks == Split(Substitute(md), BLANK)
KeptBlocks ==
    SelectSeq([i \in 1..Len(SubstitutedBlocks) |-> Strip(SubstitutedBlocks[i])], NonEmpty)
HeadingOpenTag(b) == StartsWith(b, H1_OPEN) \/ StartsWith(b, H2_OPEN)
Html == rendered[1]

\* C10 (as claimed): the output is the non-empty blocks joined by blank lines,
\* a block that starts with <h1> or <h2> unwrapped and every other block,
\* one starting with <hr> included, wrapped in <p>...</p>.
C10_OnlyHeadingTagsUnwrapped ==
    rendered # None =>
        Html = Join([i \in 1..Len(KeptBlocks) |->
                        IF HeadingOpenTag(KeptBlocks[i]) THEN KeptBlocks[i]
                        ELSE P_OPEN \o KeptBlocks[i] \o P_CLOSE], BLANK)

\* C10 (amended): the output is the non-empty blocks joined by blank lines, a
\* block that starts with the two characters <h unwrapped (a heading, but also
\* <hr>) and every other block wrapped in <p>...</p>.
C10_BlocksStartingWithLtHUnwrapped ==
    rendered # None =>
        Html = Join([i \in 1..Len(KeptBlocks) |->
                        IF StartsWith(KeptBlocks[i], H_PREFIX) THEN KeptBlocks[i]
                        ELSE P_OPEN \o KeptBlocks[i] \o P_CLOSE], BLANK)

C10_Witness ==
    /\ rendered # None
    /\ Len(KeptBlocks) = 2
    /\ \E i, j \in 1..2 :
          /\ StartsWith(KeptBlocks[i], HR)
          /\ ~StartsWith(KeptBlocks[j], H_PREFIX)
          /\ Split(Html, BLANK)[i] = KeptBlocks[i]
          /\ Split(Html, BLANK)[j] = P_OPEN \o KeptBlocks[j] \o P_CLOSE

====
